---- MODULE Spec2Model ----
(***************************************************************************)
(* Template loader and engine registry of revel.                           *)
(*   loader   : src/unnamed/part_000        (package revel)                *)
(*   registry : src/template_engine/engine.go (package template_engine)   *)
(*   older registry : src/unnamed/part_001  (Spec_part001)                 *)
(*   engine object  : src/template_engines/go_engine.go (Spec_go_engine)   *)
(*   helpers Slug and parseTemplateError : SpecFuncs                       *)
(*   two loaders on the one registry : Spec_two_loaders                    *)
(* Strings are sequences of one-character strings, so that ToLower,        *)
(* path.Ext, the slicing of the walk path and the lexical walk order are   *)
(* computed as the code computes them.                                     *)
(***************************************************************************)
EXTENDS Integers, Sequences, FiniteSets, TLC

VARIABLES fs, engine, loader, loaders, TemplateFuncs, TemplateDelims, run, ret, hist, lookup, ops, calc, goEngine

vars == <<fs, engine, loader, loaders, TemplateFuncs, TemplateDelims, run, ret, hist, lookup, ops, calc, goEngine>>

(* ----------------------------- bounds ---------------------------------- *)

\* number of filesystem changes made by the environment
MaxFsOps == 2

\* length of the strings handed to the helper functions
MaxLen == 3

(* ----------------------------- strings --------------------------------- *)

\* byte value of the characters that occur in the modelled names
Code(c) ==
  CASE c = "." -> 46
    [] c = "/" -> 47
    [] c = "1" -> 49
    [] c = "2" -> 50
    [] c = "A" -> 65
    [] c = "X" -> 88
    [] c = "a" -> 97
    [] c = "c" -> 99
    [] c = "r" -> 114
    [] c = "x" -> 120

\* unicode.ToLower on one character
LowerChar(c) ==
  CASE c = "A" -> "a"
    [] c = "B" -> "b"
    [] c = "C" -> "c"
    [] c = "D" -> "d"
    [] c = "E" -> "e"
    [] c = "F" -> "f"
    [] c = "G" -> "g"
    [] c = "H" -> "h"
    [] c = "I" -> "i"
    [] c = "J" -> "j"
    [] c = "K" -> "k"
    [] c = "L" -> "l"
    [] c = "M" -> "m"
    [] c = "N" -> "n"
    [] c = "O" -> "o"
    [] c = "P" -> "p"
    [] c = "Q" -> "q"
    [] c = "R" -> "r"
    [] c = "S" -> "s"
    [] c = "T" -> "t"
    [] c = "U" -> "u"
    [] c = "V" -> "v"
    [] c = "W" -> "w"
    [] c = "X" -> "x"
    [] c = "Y" -> "y"
    [] c = "Z" -> "z"
    [] OTHER -> c

\* strings.ToLower
ToLower(s) == [i \in 1..Len(s) |-> LowerChar(s[i])]

\* strings.Replace(s, old, new, -1) for one-character old and new
Replace(s, old, new) == [i \in 1..Len(s) |-> IF s[i] = old THEN new ELSE s[i]]

\* s[from:] of Go, from 0-based
SliceFrom(s, from) == SubSeq(s, from + 1, Len(s))

\* strings.HasPrefix
HasPrefix(s, p) == Len(s) >= Len(p) /\ SubSeq(s, 1, Len(p)) = p

\* byte-wise s < t, the order of sort.Strings in filepath.Walk's readDirNames
RECURSIVE Less(_, _)
Less(s, t) ==
  IF t = <<>> THEN FALSE
  ELSE IF s = <<>> THEN TRUE
  ELSE IF Code(Head(s)) # Code(Head(t)) THEN Code(Head(s)) < Code(Head(t))
  ELSE Less(Tail(s), Tail(t))

\* the elements of S in increasing byte order
RECURSIVE Sorted(_)
Sorted(S) ==
  IF S = {} THEN <<>>
  ELSE LET m == CHOOSE x \in S : \A y \in S \ {x} : Less(x, y)
       IN  <<m>> \o Sorted(S \ {m})

\* path.Ext: the suffix beginning at the final dot of the final element
RECURSIVE ExtFrom(_, _)
ExtFrom(p, i) ==
  IF i < 1 \/ p[i] = "/" THEN <<>>
  ELSE IF p[i] = "." THEN SubSeq(p, i, Len(p))
  ELSE ExtFrom(p, i - 1)

Ext(p) == ExtFrom(p, Len(p))

\* the last element of a path (os.FileInfo.Name of a walked file)
RECURSIVE BaseFrom(_, _)
BaseFrom(p, i) ==
  IF i < 1 \/ p[i] = "/" THEN SubSeq(p, i + 1, Len(p))
  ELSE BaseFrom(p, i - 1)

Base(p) == BaseFrom(p, Len(p))

(* ----------------------------- Slug ------------------------------------- *)

LowerLetters ==
  {"a", "b", "c", "d", "e", "f", "g", "h", "i", "j", "k", "l", "m",
   "n", "o", "p", "q", "r", "s", "t", "u", "v", "w", "x", "y", "z"}

Digits == {"0", "1", "2", "3", "4", "5", "6", "7", "8", "9"}

\* a character that invalidSlugPattern, [^a-z0-9 _-], matches
invalidSlugPattern(c) == c \notin LowerLetters \cup Digits \cup {" ", "_", "-"}

\* a character that \s of whiteSpacePattern matches
whiteSpacePattern(c) == c \in {" ", "\t", "\n", "\f", "\r"}

\* invalidSlugPattern.ReplaceAllString(text, ""): every match is one character
RECURSIVE DeleteInvalid(_)
DeleteInvalid(text) ==
  IF text = <<>> THEN <<>>
  ELSE IF invalidSlugPattern(Head(text)) THEN DeleteInvalid(Tail(text))
  ELSE <<Head(text)>> \o DeleteInvalid(Tail(text))

\* the rest of text after the longest prefix of whitespace
RECURSIVE SkipSpace(_)
SkipSpace(text) ==
  IF text # <<>> /\ whiteSpacePattern(Head(text)) THEN SkipSpace(Tail(text)) ELSE text

\* whiteSpacePattern.ReplaceAllString(text, separator): the matches of \s+ are
\* the maximal runs, from left to right
RECURSIVE ReplaceSpace(_, _)
ReplaceSpace(text, separator) ==
  IF text = <<>> THEN <<>>
  ELSE IF whiteSpacePattern(Head(text))
    THEN <<separator>> \o ReplaceSpace(SkipSpace(text), separator)
  ELSE <<Head(text)>> \o ReplaceSpace(Tail(text), separator)

\* strings.TrimLeft and strings.TrimRight with a one-character cutset
RECURSIVE TrimLeft(_, _)
TrimLeft(text, cut) ==
  IF text # <<>> /\ Head(text) = cut THEN TrimLeft(Tail(text), cut) ELSE text

RECURSIVE TrimRight(_, _)
TrimRight(text, cut) ==
  IF text # <<>> /\ text[Len(text)] = cut
    THEN TrimRight(SubSeq(text, 1, Len(text) - 1), cut)
    ELSE text

\* strings.Trim
Trim(text, cut) == TrimRight(TrimLeft(text, cut), cut)

\* Slug without the final Trim
Slug_NoTrim(text) == ReplaceSpace(DeleteInvalid(ToLower(text)), "-")

\* Slug
Slug(text) == Trim(ReplaceSpace(DeleteInvalid(ToLower(text)), "-"), "-")

(* ----------------------------- parseTemplateError ----------------------- *)

\* the value of a decimal digit
DigitValue(c) ==
  CASE c = "0" -> 0 [] c = "1" -> 1 [] c = "2" -> 2 [] c = "3" -> 3 [] c = "4" -> 4
    [] c = "5" -> 5 [] c = "6" -> 6 [] c = "7" -> 7 [] c = "8" -> 8 [] c = "9" -> 9

\* strconv.Atoi on a string of digits; the numbers of the modelled messages
\* are far below the range of int
RECURSIVE Atoi(_)
Atoi(digits) ==
  IF digits = <<>> THEN 0
  ELSE 10 * Atoi(SubSeq(digits, 1, Len(digits) - 1)) + DigitValue(digits[Len(digits)])

\* the first position from k on that holds no digit
RECURSIVE DigitsEnd(_, _)
DigitsEnd(text, k) ==
  IF k <= Len(text) /\ text[k] \in Digits THEN DigitsEnd(text, k + 1) ELSE k

\* the position of the closing colon of a match of :\d+: that begins at
\* position a, or 0
MatchEnd(text, a) ==
  IF text[a] # ":" THEN 0
  ELSE LET e == DigitsEnd(text, a + 1)
       IN  IF e > a + 1 /\ e <= Len(text) /\ text[e] = ":" THEN e ELSE 0

\* regexp.FindStringIndex for :\d+: from position a on: the leftmost match,
\* as the 0-based pair of Go (i[0] its start, i[1] the index after its end)
RECURSIVE FindStringIndex(_, _)
FindStringIndex(text, a) ==
  IF a > Len(text) THEN [found |-> FALSE, i0 |-> 0, i1 |-> 0]
  ELSE IF MatchEnd(text, a) # 0
    THEN [found |-> TRUE, i0 |-> a - 1, i1 |-> MatchEnd(text, a)]
  ELSE FindStringIndex(text, a + 1)

\* strings.Index for a one-character substring: the 0-based index or -1
RECURSIVE Index(_, _, _)
Index(text, c, k) ==
  IF k > Len(text) THEN -1
  ELSE IF text[k] = c THEN k - 1
  ELSE Index(text, c, k + 1)

\* strings.TrimSpace
RECURSIVE TrimSpace(_)
TrimSpace(text) ==
  IF text # <<>> /\ whiteSpacePattern(Head(text)) THEN TrimSpace(Tail(text))
  ELSE IF text # <<>> /\ whiteSpacePattern(text[Len(text)])
    THEN TrimSpace(SubSeq(text, 1, Len(text) - 1))
  ELSE text

\* parseTemplateError on an error whose Error() is message; the slice
\* description[i[1]+1:] is out of range when the match ends the message
parseTemplateError(message) ==
  LET i == FindStringIndex(message, 1)
  IN  IF ~i.found
        THEN [fault |-> FALSE, templateName |-> <<>>, line |-> 0, description |-> message]
      ELSE
        LET line == Atoi(SubSeq(message, i.i0 + 2, i.i1 - 1))
            before == SubSeq(message, 1, i.i0)
            colon == Index(before, ":", 1)
            name == IF colon # -1 THEN SliceFrom(before, colon + 1) ELSE before
        IN  IF i.i1 + 1 > Len(message)
              THEN [fault |-> TRUE, templateName |-> TrimSpace(name), line |-> line,
                    description |-> message]
              ELSE [fault |-> FALSE, templateName |-> TrimSpace(name), line |-> line,
                    description |-> SliceFrom(message, i.i1 + 1)]

(* ----------------------------- universe -------------------------------- *)

Root1 == <<"r", "1">>
Root2 == <<"r", "2">>

\* loader.paths, in priority order
paths == <<Root1, Root2>>

NameUpper == <<"A", ".", "X">>
NameLower == <<"a", ".", "x">>
NamePlain == <<"c">>
NameHidden == <<".", "c">>

FileNames == {NameUpper, NameLower, NamePlain, NameHidden}

\* filepath.Join(root, name)
Join(root, name) == root \o <<"/">> \o name

\* the files the environment may create: every name under the first root,
\* the two names of the case pair under the second
FilePaths ==
  {Join(Root1, n) : n \in FileNames} \cup {Join(Root2, n) : n \in {NameUpper, NameLower}}

\* file contents: two sources that parse, one with a syntax error
Sources == {"v1", "v2", "bad"}

\* a source that parses and holds a {{define}} block for the name of another file
Defining == "def"

\* a file that is listed by the walk and that ReadFile fails on
Unreadable == "unreadable"

Contents == Sources \cup {Unreadable, Defining}
Absent == "absent"

\* the contents the environment writes to a path
WriteContents(p) ==
  IF HasPrefix(p, Root2) THEN {"v2"}
  ELSE IF Base(p) = NameHidden THEN {"v1"}
  ELSE IF Base(p) = NameUpper THEN {"v1", "bad"}
  ELSE IF Base(p) = NamePlain THEN Sources \cup {Unreadable}
  ELSE Sources \cup {Defining}

\* the extensions of the modelled names
ExtDefault == <<>>
ExtUpper == <<".", "X">>
ExtLower == <<".", "x">>

EmptyMap == [k \in {} |-> {}]

Put(m, k, v) == [x \in DOMAIN m \cup {k} |-> IF x = k THEN v ELSE m[x]]

(* ----------------------------- errors ---------------------------------- *)

\* a nil error
NoError == [type |-> "nil"]

\* an error value; type is the dynamic type a Go type switch sees
MkError(type, title, path, text, arg, line, src) ==
  [type |-> type, Title |-> title, Path |-> path,
   Description |-> [text |-> text, arg |-> arg], Line |-> line, SourceLines |-> src]

(* ----------------------------- compilers ------------------------------- *)

\* a nil *template.Template
NilTemplate == [isNil |-> TRUE, names |-> EmptyMap]

\* a template object whose set holds the templates of names
MkTemplate(names) == [isNil |-> FALSE, names |-> names]

\* the parse tree of one compiled source
Tree(templateStr, delims) == [src |-> templateStr, delims |-> delims]

\* the names of the {{define}} blocks of a source: Parse associates a template
\* of each of them with the template it returns
Defines(templateStr) == IF templateStr = Defining THEN {NamePlain} ELSE {}

\* template.New(name).Funcs(TemplateFuncs) panics when a helper has a bad signature
FuncsPanics == ~TemplateFuncs

\* the default compiler: the recovered panic is kept in funcError and not
\* returned, so a fault yields the zero results (nil, nil)
GoTemplater(templateName, templateStr, delims) ==
  IF FuncsPanics
    THEN [tmpl |-> NilTemplate, tree |-> Tree("", delims), err |-> NoError]
  ELSE IF templateStr = "bad"
    THEN [tmpl |-> MkTemplate(EmptyMap), tree |-> Tree("", delims),
          err |-> MkError("*errors.errorString", "", templateName,
                          "template: parse error", templateName, 1, "")]
  ELSE [tmpl |-> MkTemplate([n \in Defines(templateStr) |-> Tree(templateStr, delims)]),
        tree |-> Tree(templateStr, delims), err |-> NoError]

\* a compiler registered by an engine module; it reports a failure as a
\* template_engine.Error value
Plugin(templateName, templateStr, delims) ==
  IF templateStr = "bad"
    THEN [tmpl |-> NilTemplate, tree |-> Tree("", delims),
          err |-> MkError("template_engine.Error", "Plugin Compilation Error",
                          templateName, "plugin: parse error", templateName, 1,
                          templateStr)]
  ELSE [tmpl |-> MkTemplate(EmptyMap), tree |-> Tree(templateStr, delims),
        err |-> NoError]

\* a call through the function value stored in engine.handlers
CallTemplater(loaderFn, templateName, templateStr, delims) ==
  IF loaderFn = "GoTemplater"
    THEN GoTemplater(templateName, templateStr, delims)
    ELSE Plugin(templateName, templateStr, delims)

(* ----------------------------- registry -------------------------------- *)

\* ioutil.ReadFile
ReadFile(path) ==
  IF path \in DOMAIN fs /\ fs[path] \notin {Absent, Unreadable}
    THEN [ok |-> TRUE, data |-> fs[path]]
    ELSE [ok |-> FALSE, data |-> ""]

\* one entry of a merged set: the parse tree and the file it was read from
Entry(tree, path) == [tree |-> tree, from |-> path]

\* engine.TemplateSet = template: the first compiled template becomes the
\* merged set, together with the templates its source defines
Associated(tmpl, info, entry) ==
  [n \in DOMAIN tmpl.names \cup {info.Name} |->
     IF n = info.Name THEN entry ELSE Entry(tmpl.names[n], info.Path)]

\* (*template.Template).AddParseTree: a name that is already defined is an error
AddParseTree(set, name, entry) ==
  IF name \in DOMAIN set.names
    THEN [set |-> set,
          err |-> MkError("*errors.errorString", "", name,
                          "template: redefinition of template", name, 0, "")]
    ELSE [set |-> MkTemplate(Put(set.names, name, entry)), err |-> NoError]

\* the result of AddTemplate: the registry afterwards, the returned error,
\* and whether the call panicked instead of returning
AddResult(eng, err, panicked) == [engine |-> eng, err |-> err, panic |-> panicked]

\* AddTemplate recording the path of every call, also of a repeated name
AddTemplate_RecordAlways(eng, info) ==
  IF info.Name \in DOMAIN eng.seen_paths
    THEN AddResult([eng EXCEPT !.seen_paths = Put(eng.seen_paths, info.Name, info.Path)],
                   NoError, FALSE)
  ELSE
    LET eng1 == [eng EXCEPT !.seen_paths = Put(eng.seen_paths, info.Name, info.Path)]
        file == ReadFile(info.Path)
        ext  == Ext(info.Path)
    IN  IF ~file.ok
          THEN AddResult(eng1, NoError, FALSE)
        ELSE IF ext \notin DOMAIN eng1.handlers
          THEN AddResult(eng1,
                 MkError("*template_engine.Error", "Template Load Error", info.Path,
                         "No known handler for extension", ext, -1, file.data),
                 FALSE)
        ELSE
          LET r == CallTemplater(eng1.handlers[ext], info.Name, file.data, eng1.delims)
              entry == Entry(r.tree, info.Path)
          IN  IF r.err # NoError
                THEN AddResult(eng1, r.err, FALSE)
              ELSE IF eng1.TemplateSet.isNil
                THEN AddResult(
                       [eng1 EXCEPT !.TemplateSet =
                          IF r.tmpl.isNil THEN NilTemplate
                          ELSE MkTemplate(Associated(r.tmpl, info, entry))],
                       NoError, FALSE)
              ELSE IF r.tmpl.isNil
                THEN AddResult(eng1, NoError, TRUE)
              ELSE
                LET m == AddParseTree(eng1.TemplateSet, info.Name, entry)
                IN  AddResult([eng1 EXCEPT !.TemplateSet = m.set], m.err, FALSE)

\* template_engine.AddTemplate
AddTemplate(eng, info) ==
  IF info.Name \in DOMAIN eng.seen_paths
    THEN AddResult(eng, NoError, FALSE)
  ELSE
    LET eng1 == [eng EXCEPT !.seen_paths = Put(eng.seen_paths, info.Name, info.Path)]
        file == ReadFile(info.Path)
        ext  == Ext(info.Path)
    IN  IF ~file.ok
          THEN AddResult(eng1, NoError, FALSE)
        ELSE IF ext \notin DOMAIN eng1.handlers
          THEN AddResult(eng1,
                 MkError("*template_engine.Error", "Template Load Error", info.Path,
                         "No known handler for extension", ext, -1, file.data),
                 FALSE)
        ELSE
          LET r == CallTemplater(eng1.handlers[ext], info.Name, file.data, eng1.delims)
              entry == Entry(r.tree, info.Path)
          IN  IF r.err # NoError
                THEN AddResult(eng1, r.err, FALSE)
              ELSE IF eng1.TemplateSet.isNil
                THEN AddResult(
                       [eng1 EXCEPT !.TemplateSet =
                          IF r.tmpl.isNil THEN NilTemplate
                          ELSE MkTemplate(Associated(r.tmpl, info, entry))],
                       NoError, FALSE)
              ELSE IF r.tmpl.isNil
                \* template.Tree on a nil template: nil pointer dereference
                THEN AddResult(eng1, NoError, TRUE)
              ELSE
                LET m == AddParseTree(eng1.TemplateSet, info.Name, entry)
                IN  AddResult([eng1 EXCEPT !.TemplateSet = m.set], m.err, FALSE)

(* the registry of src/unnamed/part_001: the key of seen_paths is the local
   templateName, which is assigned only where the path separator is "\" *)

\* os.PathSeparator of the build: the platform of the modelled "/" paths
PathSeparator == "/"

\* the local templateName of part_001's AddTemplate
templateName_part001(info) ==
  IF PathSeparator = "\\" THEN Replace(info.Name, "\\", "/") ELSE <<>>

\* path.Ext with part_001's comparison to "html", which no result of path.Ext
\* equals since a non-empty one begins with the dot
Ext_part001(p) == IF Ext(p) = <<"h", "t", "m", "l">> THEN <<>> ELSE Ext(p)

\* template_engine.AddTemplate of part_001
AddTemplate_part001(eng, info) ==
  LET templateName == templateName_part001(info)
  IN
  IF templateName \in DOMAIN eng.seen_paths
    THEN AddResult(eng, NoError, FALSE)
  ELSE
    LET eng1 == [eng EXCEPT !.seen_paths = Put(eng.seen_paths, templateName, info.Path)]
        file == ReadFile(info.Path)
        ext  == Ext_part001(info.Path)
    IN  IF ~file.ok
          THEN AddResult(eng1, NoError, FALSE)
        ELSE IF ext \notin DOMAIN eng1.handlers
          THEN AddResult(eng1,
                 MkError("*template_engine.Error", "Template Load Error", info.Path,
                         "No known handler for extension", ext, -1, file.data),
                 FALSE)
        ELSE
          LET r == CallTemplater(eng1.handlers[ext], info.Name, file.data, eng1.delims)
              entry == Entry(r.tree, info.Path)
          IN  IF r.err # NoError
                THEN AddResult(eng1, r.err, FALSE)
              ELSE IF eng1.TemplateSet.isNil
                THEN AddResult(
                       [eng1 EXCEPT !.TemplateSet =
                          IF r.tmpl.isNil THEN NilTemplate
                          ELSE MkTemplate(Associated(r.tmpl, info, entry))],
                       NoError, FALSE)
              ELSE IF r.tmpl.isNil
                THEN AddResult(eng1, NoError, TRUE)
              ELSE
                LET m == AddParseTree(eng1.TemplateSet, info.Name, entry)
                IN  AddResult([eng1 EXCEPT !.TemplateSet = m.set], m.err, FALSE)

\* info as the lookup in seen_paths of part_001 sees it: under the key templateName
Keyed_part001(info) == [Name |-> templateName_part001(info), Path |-> info.Path]

(* the engine object of src/template_engines/go_engine.go *)

\* the nil []string of a new GoTemplateEngine
NilDelims == <<>>

\* InitializeEngine
InitializeEngine == [seenPaths |-> EmptyMap, templateSet |-> NilTemplate, delims |-> NilDelims]

\* GoTemplateEngine.Clear
GoTemplateEngine_Clear(eng) == [eng EXCEPT !.templateSet = NilTemplate, !.seenPaths = EmptyMap]

\* GoTemplateEngine.SetDelims
GoTemplateEngine_SetDelims(eng, delims) == [eng EXCEPT !.delims = delims]

\* goTemplater: after a recovered panic it sets unrecoverable and returns no
\* template and no error
goTemplater(templateName, templateStr, delims) ==
  LET d == IF delims # NilDelims THEN delims ELSE <<"", "">>
  IN  IF FuncsPanics
        THEN [tmpl |-> NilTemplate, tree |-> Tree("", d), err |-> NoError,
              unrecoverable |-> TRUE]
      ELSE IF templateStr = "bad"
        THEN [tmpl |-> MkTemplate(EmptyMap), tree |-> Tree("", d),
              err |-> MkError("*errors.errorString", "", templateName,
                              "template: parse error", templateName, 1, ""),
              unrecoverable |-> FALSE]
      ELSE [tmpl |-> MkTemplate([n \in Defines(templateStr) |-> Tree(templateStr, d)]),
            tree |-> Tree(templateStr, d), err |-> NoError, unrecoverable |-> FALSE]

\* the results of GoTemplateEngine.AddTemplate and the engine afterwards
GoAddResult(eng, err, unrecoverable, panicked) ==
  [engine |-> eng, err |-> err, unrecoverable |-> unrecoverable, panic |-> panicked]

\* GoTemplateEngine.AddTemplate for a non-nil info; the statements "return err"
\* leave the second result at its zero value
GoTemplateEngine_AddTemplate(eng, info) ==
  LET file == ReadFile(info.Path)
  IN  IF ~file.ok
        THEN GoAddResult(eng,
               MkError("*errors.errorString", "", info.Path, "Failed reading file",
                       info.Path, 0, ""),
               FALSE, FALSE)
      ELSE
        LET r == goTemplater(info.Name, file.data, eng.delims)
            entry == Entry(r.tree, info.Path)
        IN  IF r.err # NoError
              THEN GoAddResult(eng, r.err, FALSE, FALSE)
            ELSE IF eng.templateSet.isNil
              THEN GoAddResult(
                     [eng EXCEPT !.templateSet =
                        IF r.tmpl.isNil THEN NilTemplate
                        ELSE MkTemplate(Associated(r.tmpl, info, entry))],
                     NoError, FALSE, FALSE)
            ELSE IF r.tmpl.isNil
              \* template.Tree on a nil template: nil pointer dereference
              THEN GoAddResult(eng, NoError, FALSE, TRUE)
            ELSE
              LET m == AddParseTree(eng.templateSet, info.Name, entry)
              IN  GoAddResult([eng EXCEPT !.templateSet = m.set], m.err, FALSE, FALSE)

\* AddTemplate(info) calls the compiler registered for the extension
InvokesCompiler(eng, info) ==
  /\ info.Name \notin DOMAIN eng.seen_paths
  /\ ReadFile(info.Path).ok
  /\ Ext(info.Path) \in DOMAIN eng.handlers

\* AddTemplate(info) gets past the lookup in seen_paths and calls ReadFile
ReadsFile(eng, info) == info.Name \notin DOMAIN eng.seen_paths

\* AddTemplate(info) reaches the default compiler while a helper of
\* TemplateFuncs makes Funcs panic
CompilerFaults(eng, info) ==
  /\ info.Name \notin DOMAIN eng.seen_paths
  /\ ReadFile(info.Path).ok
  /\ Ext(info.Path) \in DOMAIN eng.handlers
  /\ eng.handlers[Ext(info.Path)] = "GoTemplater"
  /\ FuncsPanics

\* Clear keeping the merged set
Clear_KeepsSet(eng) == [eng EXCEPT !.seen_paths = EmptyMap]

\* Clear also putting the delimiter pair back to the default
Clear_ResetsDelims(eng) ==
  [eng EXCEPT !.TemplateSet = NilTemplate, !.seen_paths = EmptyMap, !.delims = <<"", "">>]

\* AddTemplate(info) reaches a compiler, and the compiler returns a non-nil
\* template and a nil error
CompilerSucceeds(eng, info) ==
  /\ info.Name \notin DOMAIN eng.seen_paths
  /\ ReadFile(info.Path).ok
  /\ Ext(info.Path) \in DOMAIN eng.handlers
  /\ LET r == CallTemplater(eng.handlers[Ext(info.Path)], info.Name,
                            ReadFile(info.Path).data, eng.delims)
     IN  r.err = NoError /\ ~r.tmpl.isNil

\* template_engine.Clear
Clear(eng) == [eng EXCEPT !.TemplateSet = NilTemplate, !.seen_paths = EmptyMap]

\* template_engine.SetDelims
SetDelims(eng, delims) == [eng EXCEPT !.delims = delims]

\* template_engine.CompiledTemplates
CompiledTemplates(eng) == eng.TemplateSet

\* template_engine.RegisterTemplater
RegisterTemplater(eng, extension, loaderFn) ==
  [eng EXCEPT !.handlers = Put(eng.handlers, extension, loaderFn)]

(* ----------------------------- loader ---------------------------------- *)

\* loader.templateSet is a pointer: either to the object the registry's
\* TemplateSet points to (alias), or to an object the registry no longer holds
SameObject == [alias |-> TRUE, val |-> NilTemplate]
OwnObject(t) == [alias |-> FALSE, val |-> t]

\* the template object loader.templateSet points to
Deref(ptr, eng) == IF ptr.alias THEN eng.TemplateSet ELSE ptr.val

\* NewTemplateLoader
NewTemplateLoader ==
  [templateSet |-> OwnObject(NilTemplate), compileError |-> NoError,
   templatePaths |-> EmptyMap]

\* the roots of two loaders of one process, disjoint
LoaderPaths == <<<<Root1>>, <<Root2>>>>

\* NewTemplateLoader(paths) for each of them
TwoLoaders == [l \in 1..Len(LoaderPaths) |-> [paths |-> LoaderPaths[l]] @@ NewTemplateLoader]

\* TemplateLoader.WatchFile
WatchFile(basename) == ~HasPrefix(basename, <<".">>)

\* the files filepath.Walk hands to the callback under basePath, in walk
\* order, that pass WatchFile
WalkFiles(basePath) ==
  LET present == {p \in DOMAIN fs :
                    /\ fs[p] # Absent
                    /\ HasPrefix(p, basePath \o <<"/">>)
                    /\ WatchFile(Base(p))}
      order == Sorted(present)
  IN  [i \in 1..Len(order) |-> [basePath |-> basePath, path |-> order[i]]]

\* a walk that ends with the first root
WalkAll_FirstRoot(i) == IF i > 1 THEN <<>> ELSE WalkFiles(paths[i])

\* the files of all roots, in the order of loader.paths
RECURSIVE WalkAll(_)
WalkAll(i) == IF i > Len(paths) THEN <<>> ELSE WalkFiles(paths[i]) \o WalkAll(i + 1)

\* the closure checkTemplateError of Refresh: the new value of compileError
checkTemplateError(compileError, err, name) ==
  IF err # NoError /\ compileError = NoError
    THEN IF err.type = "template_engine.Error"
           THEN [type |-> "*revel.Error", Title |-> err.Title, Path |-> err.Path,
                 Description |-> err.Description, Line |-> err.Line,
                 SourceLines |-> err.SourceLines]
           ELSE compileError
    ELSE compileError

\* the walk callback submitting the file twice under its own name
WalkInfo_NoAlias(file, k) ==
  [Name |-> SliceFrom(file.path, Len(file.basePath) + 1), Path |-> file.path]

\* the TemplateInfo of the k-th AddTemplate call of the walk callback for a file
WalkInfo(file, k) ==
  LET templateName == SliceFrom(file.path, Len(file.basePath) + 1)
  IN  [Name |-> IF k = 1 THEN templateName ELSE ToLower(templateName),
       Path |-> file.path]

\* TemplateLoader.Template: the handle, the error, or a fault
Template(ldr, eng, name) ==
  LET lname == ToLower(name)
      set == Deref(ldr.templateSet, eng)
  IN  IF set.isNil
        \* Lookup on a nil *template.Template dereferences it
        THEN [fault |-> TRUE, found |-> FALSE, tmpl |-> Entry(Tree("", <<>>), <<>>),
              err |-> NoError]
      ELSE
        LET found == lname \in DOMAIN set.names
            tmpl == IF found THEN set.names[lname] ELSE Entry(Tree("", <<>>), <<>>)
        IN  IF ~found /\ ldr.compileError = NoError
              THEN [fault |-> FALSE, found |-> FALSE, tmpl |-> tmpl,
                    err |-> MkError("*errors.errorString", "", lname,
                                    "Template not found", lname, 0, "")]
              ELSE [fault |-> FALSE, found |-> found, tmpl |-> tmpl,
                    err |-> ldr.compileError]

\* GoTemplate.Content for the handle of the template called name: ReadLines
\* of templatePaths[name], the empty path when the map has no such key
Content(ldr, name) ==
  ReadFile(IF name \in DOMAIN ldr.templatePaths THEN ldr.templatePaths[name] ELSE <<>>)

(* ----------------------------- state machine --------------------------- *)

NoLookup == [valid |-> FALSE, name |-> <<>>, res |-> Template(NewTemplateLoader,
               [TemplateSet |-> MkTemplate(EmptyMap)], <<>>)]

NoSnapshot == [valid |-> FALSE, set |-> NilTemplate]

NoCall == [valid |-> FALSE, info |-> [Name |-> <<>>, Path |-> <<>>], seen |-> FALSE,
           fault |-> FALSE, invoked |-> FALSE, err |-> NoError]

\* the read attempts per name, after a call for name that read the file or not
Counted(reads, name, read) ==
  Put(reads, name, (IF name \in DOMAIN reads THEN reads[name] ELSE 0)
                   + (IF read THEN 1 ELSE 0))

\* no helper function has been called
NoCalc == [fn |-> "none", arg |-> <<>>, out |-> <<>>]

Idle == [pc |-> "idle", todo |-> <<>>, k |-> 1, n |-> 0]

\* the names Template() is asked for
QueryNames == {NameUpper, NamePlain}

\* the names Template() is asked for while a Refresh() is running
WalkQueryNames == {NamePlain}

\* the delimiter configurations of app.conf, split at the space
DelimConfigs == {<<>>, <<"<%", "%>">>}

\* the registrations engine modules make
Registrations ==
  {<<ExtLower, "GoTemplater">>, <<ExtUpper, "Plugin">>}

Init ==
  /\ fs = [p \in FilePaths |-> Absent]
  \* template_engine's init, then the loader's init registering the default compiler
  /\ engine = RegisterTemplater(
                [seen_paths |-> EmptyMap, handlers |-> EmptyMap,
                 TemplateSet |-> NilTemplate, delims |-> <<"", "">>],
                ExtDefault, "GoTemplater")
  /\ loader = NewTemplateLoader
  /\ loaders = TwoLoaders
  /\ TemplateFuncs = TRUE
  /\ TemplateDelims \in DelimConfigs
  /\ run = Idle
  /\ ret = [kind |-> "none", err |-> NoError]
  /\ hist = [firstErr |-> NoError, call |-> NoCall, prev |-> NoSnapshot,
             compiled |-> FALSE, passed |-> {}, reads |-> EmptyMap,
             published |-> NilTemplate]
  /\ lookup = NoLookup
  /\ ops = [fs |-> 0]
  /\ calc = NoCalc
  /\ goEngine = InitializeEngine

\* the environment writes a template file
FsWrite(p, c) ==
  /\ run.pc = "idle"
  /\ c \in WriteContents(p)
  /\ ops.fs < MaxFsOps
  /\ fs[p] # c
  /\ fs' = [fs EXCEPT ![p] = c]
  /\ ops' = [ops EXCEPT !.fs = @ + 1]
  /\ hist' = [hist EXCEPT !.prev = NoSnapshot]
  /\ lookup' = NoLookup
  /\ UNCHANGED <<engine, loader, loaders, TemplateFuncs, TemplateDelims, run, ret, calc, goEngine>>

\* the environment removes a template file
FsRemove(p) ==
  /\ run.pc = "idle"
  /\ ops.fs < MaxFsOps
  /\ fs[p] # Absent
  /\ fs' = [fs EXCEPT ![p] = Absent]
  /\ ops' = [ops EXCEPT !.fs = @ + 1]
  /\ hist' = [hist EXCEPT !.prev = NoSnapshot]
  /\ lookup' = NoLookup
  /\ UNCHANGED <<engine, loader, loaders, TemplateFuncs, TemplateDelims, run, ret, calc, goEngine>>

\* the application replaces a helper of TemplateFuncs (valid or not)
SetTemplateFuncs(ok) ==
  /\ run.pc = "idle"
  /\ TemplateFuncs # ok
  /\ TemplateFuncs' = ok
  /\ lookup' = NoLookup
  /\ UNCHANGED <<fs, engine, loader, loaders, TemplateDelims, run, ret, hist, ops, calc, goEngine>>

CallRegisterTemplater(extension, loaderFn) ==
  /\ run.pc = "idle"
  /\ engine' = RegisterTemplater(engine, extension, loaderFn)
  /\ engine' # engine
  /\ lookup' = NoLookup
  /\ UNCHANGED <<fs, loader, loaders, TemplateFuncs, TemplateDelims, run, ret, hist, ops, calc, goEngine>>

\* template_engine.Clear(): the object the loader points to stays as it was
CallClear ==
  /\ run.pc = "idle"
  /\ engine' = Clear(engine)
  /\ loader' = [loader EXCEPT !.templateSet =
                  OwnObject(Deref(loader.templateSet, engine))]
  /\ hist' = [hist EXCEPT !.compiled = FALSE, !.passed = {}, !.reads = EmptyMap]
  /\ lookup' = NoLookup
  /\ UNCHANGED <<loaders, fs, TemplateFuncs, TemplateDelims, run, ret, ops, calc, goEngine>>

\* Refresh(), up to the start of the walk
RefreshBegin ==
  /\ run.pc = "idle"
  /\ loader' = [loader EXCEPT !.compileError = NoError, !.templatePaths = EmptyMap]
  /\ engine' = IF TemplateDelims # <<>> THEN SetDelims(engine, TemplateDelims)
               ELSE engine
  /\ run' = [pc |-> "walk", todo |-> WalkAll(1), k |-> 1, n |-> 0]
  /\ hist' = [hist EXCEPT !.firstErr = NoError, !.call = NoCall]
  /\ lookup' = NoLookup
  /\ UNCHANGED <<loaders, fs, TemplateFuncs, TemplateDelims, ret, ops, calc, goEngine>>

\* the TemplateInfo of the AddTemplate call the walk makes next
NextInfo == WalkInfo(Head(run.todo), run.k)

\* one AddTemplate call of the walk callback followed by checkTemplateError;
\* a panic of AddTemplate leaves Refresh
RefreshAdd ==
  /\ run.pc = "walk"
  /\ run.todo # <<>>
  /\ LET info == NextInfo
         r == AddTemplate(engine, info)
     IN  /\ engine' = r.engine
         /\ hist' = [hist EXCEPT
                       !.call = [valid |-> TRUE, info |-> info,
                                 seen |-> info.Name \in DOMAIN engine.seen_paths,
                                 fault |-> CompilerFaults(engine, info),
                                 invoked |-> InvokesCompiler(engine, info),
                                 err |-> r.err],
                       !.firstErr = IF @ = NoError THEN r.err ELSE @,
                       !.prev = IF r.panic THEN NoSnapshot ELSE @,
                       !.compiled = @ \/ CompilerSucceeds(engine, info),
                       !.passed = @ \cup {info.Name},
                       !.reads = Counted(@, info.Name, ReadsFile(engine, info))]
         /\ IF r.panic
              THEN /\ run' = Idle
                   /\ ret' = [kind |-> "panic", err |-> NoError]
                   /\ UNCHANGED loader
              ELSE /\ run' = [run EXCEPT
                                !.todo = IF run.k = 2 THEN Tail(@) ELSE @,
                                !.k = IF run.k = 2 THEN 1 ELSE 2,
                                !.n = @ + 1]
                   /\ loader' = [loader EXCEPT !.compileError =
                                   checkTemplateError(@, r.err, info.Name)]
                   /\ UNCHANGED ret
  /\ lookup' = NoLookup
  /\ UNCHANGED <<loaders, fs, TemplateFuncs, TemplateDelims, ops, calc, goEngine>>

\* the same step of the walk against the registry of part_001
RefreshAdd_part001 ==
  /\ run.pc = "walk"
  /\ run.todo # <<>>
  /\ LET info == NextInfo
         r == AddTemplate_part001(engine, info)
         keyed == Keyed_part001(info)
     IN  /\ engine' = r.engine
         /\ hist' = [hist EXCEPT
                       !.call = [valid |-> TRUE, info |-> info,
                                 seen |-> keyed.Name \in DOMAIN engine.seen_paths,
                                 fault |-> CompilerFaults(engine, keyed),
                                 invoked |-> InvokesCompiler(engine, keyed),
                                 err |-> r.err],
                       !.firstErr = IF @ = NoError THEN r.err ELSE @,
                       !.prev = IF r.panic THEN NoSnapshot ELSE @,
                       !.compiled = @ \/ CompilerSucceeds(engine, keyed),
                       !.passed = @ \cup {info.Name},
                       !.reads = Counted(@, info.Name, ReadsFile(engine, keyed))]
         /\ IF r.panic
              THEN /\ run' = Idle
                   /\ ret' = [kind |-> "panic", err |-> NoError]
                   /\ UNCHANGED loader
              ELSE /\ run' = [run EXCEPT
                                !.todo = IF run.k = 2 THEN Tail(@) ELSE @,
                                !.k = IF run.k = 2 THEN 1 ELSE 2,
                                !.n = @ + 1]
                   /\ loader' = [loader EXCEPT !.compileError =
                                   checkTemplateError(@, r.err, info.Name)]
                   /\ UNCHANGED ret
  /\ lookup' = NoLookup
  /\ UNCHANGED <<loaders, fs, TemplateFuncs, TemplateDelims, ops, calc, goEngine>>

\* the end of Refresh(): the snapshot of the registry's set and the return
RefreshEnd ==
  /\ run.pc = "walk"
  /\ run.todo = <<>>
  /\ loader' = [loader EXCEPT !.templateSet =
                  IF CompiledTemplates(engine).isNil THEN OwnObject(NilTemplate)
                  ELSE SameObject]
  /\ run' = Idle
  /\ ret' = [kind |-> "returned", err |-> loader.compileError]
  /\ hist' = [hist EXCEPT
                !.prev = [valid |-> TRUE, set |-> CompiledTemplates(engine)],
                !.published = CompiledTemplates(engine),
                !.call = NoCall]
  /\ lookup' = NoLookup
  /\ UNCHANGED <<loaders, fs, engine, TemplateFuncs, TemplateDelims, ops, calc, goEngine>>

\* a caller looks a template up, also between two steps of a running Refresh()
CallTemplate(name) ==
  /\ run.pc = "walk" => name \in WalkQueryNames
  /\ lookup' = [valid |-> TRUE, name |-> name, res |-> Template(loader, engine, name)]
  /\ lookup' # lookup
  /\ UNCHANGED <<fs, engine, loader, loaders, TemplateFuncs, TemplateDelims, run, ret, hist, ops, calc, goEngine>>

Next ==
  \/ \E p \in FilePaths, c \in Contents : FsWrite(p, c)
  \/ \E p \in FilePaths : FsRemove(p)
  \/ \E ok \in BOOLEAN : SetTemplateFuncs(ok)
  \/ \E reg \in Registrations : CallRegisterTemplater(reg[1], reg[2])
  \/ CallClear
  \/ RefreshBegin
  \/ RefreshAdd
  \/ RefreshEnd
  \/ \E name \in QueryNames : CallTemplate(name)

Spec == Init /\ [][Next]_vars

\* the loader on the registry of part_001
Next_part001 ==
  \/ \E p \in FilePaths, c \in Contents : FsWrite(p, c)
  \/ \E p \in FilePaths : FsRemove(p)
  \/ \E ok \in BOOLEAN : SetTemplateFuncs(ok)
  \/ \E reg \in Registrations : CallRegisterTemplater(reg[1], reg[2])
  \/ CallClear
  \/ RefreshBegin
  \/ RefreshAdd_part001
  \/ RefreshEnd
  \/ \E name \in QueryNames : CallTemplate(name)

Spec_part001 == Init /\ [][Next_part001]_vars

(* ----------------------------- helper calls ---------------------------- *)

\* the strings of at most MaxLen characters of alphabet
Strings(alphabet) == UNION {[1..n -> alphabet] : n \in 0..MaxLen}

\* characters of every class Slug tells apart
SlugAlphabet == {"A", "a", "1", " ", "-", "_", "!", "\t"}

SlugExample1 ==
  <<"H", "e", "l", "l", "o", ",", " ", "W", "o", "r", "l", "d", "!", " ", " ", "F", "o", "o", "_", "B", "a", "r">>

SlugExample2 ==
  <<" ", " ", "-", "-", "-", "T", "e", "s", "t", "-", "-", "-", " ", " ">>

SlugInputs == Strings(SlugAlphabet) \cup {SlugExample1, SlugExample2}

\* one call of the helper "slug" on text
CallSlug(text) ==
  /\ calc = NoCalc
  /\ calc' = [fn |-> "Slug", arg |-> text, out |-> Slug(text)]
  /\ UNCHANGED <<fs, engine, loader, loaders, TemplateFuncs, TemplateDelims, run, ret, hist, lookup, ops,
                 goEngine>>

\* the characters parseTemplateError tells apart
MessageAlphabet == {":", "1", "a", " "}

\* the message of the comment above parseTemplateError
MessageExample1 ==
  <<"h", "t", "m", "l", "/", "t", "e", "m", "p", "l", "a", "t", "e", ":", "A", "p", "p", "l", "i", "c", "a", "t", "i", "o", "n", "/", "R", "e", "g", "i", "s", "t", "e", "r", ".", "h", "t", "m", "l", ":", "3", "6", ":", " ", "n", "o", " ", "s", "u", "c", "h", " ", "t", "e", "m", "p", "l", "a", "t", "e", " ", "\"", "f", "o", "o", "t", "e", "r", ".", "h", "t", "m", "l", "\"">>

\* a message with two colons before the line number
MessageExample2 ==
  <<"a", ":", " ", "b", ":", "c", ":", "1", "2", ":", " ", "d">>

Messages == Strings(MessageAlphabet) \cup {MessageExample1, MessageExample2}

\* one call of parseTemplateError on an error with the given message
CallParseTemplateError(message) ==
  /\ calc = NoCalc
  /\ calc' = [fn |-> "parseTemplateError", arg |-> message,
              out |-> parseTemplateError(message)]
  /\ UNCHANGED <<fs, engine, loader, loaders, TemplateFuncs, TemplateDelims, run, ret, hist, lookup, ops,
                 goEngine>>

NextFuncs ==
  \/ \E text \in SlugInputs : CallSlug(text)
  \/ \E message \in Messages : CallParseTemplateError(message)

SpecFuncs == Init /\ [][NextFuncs]_vars

(* ----------------------------- GoTemplateEngine ------------------------ *)

\* the TemplateInfo values handed to the engine object: a file under its name
GoInfos == {[Name |-> n, Path |-> Join(Root1, n)] : n \in FileNames \ {NameHidden}}

\* a call of GoTemplateEngine.Clear
GoEngineClear ==
  /\ goEngine' = GoTemplateEngine_Clear(goEngine)
  /\ goEngine' # goEngine
  /\ UNCHANGED <<fs, engine, loader, loaders, TemplateFuncs, TemplateDelims, run, ret, hist, lookup, ops,
                 calc>>

\* a call of GoTemplateEngine.SetDelims
GoEngineSetDelims(delims) ==
  /\ delims # <<>>
  /\ goEngine' = GoTemplateEngine_SetDelims(goEngine, delims)
  /\ goEngine' # goEngine
  /\ UNCHANGED <<fs, engine, loader, loaders, TemplateFuncs, TemplateDelims, run, ret, hist, lookup, ops,
                 calc>>

\* a call of GoTemplateEngine.AddTemplate
GoEngineAddTemplate(info) ==
  /\ LET r == GoTemplateEngine_AddTemplate(goEngine, info)
     IN  /\ goEngine' = r.engine
         /\ calc' = [fn |-> "GoTemplateEngine.AddTemplate", arg |-> info,
                     out |-> [err |-> r.err, unrecoverable |-> r.unrecoverable,
                              panic |-> r.panic]]
  /\ UNCHANGED <<fs, engine, loader, loaders, TemplateFuncs, TemplateDelims, run, ret, hist, lookup, ops>>

Next_go_engine ==
  \/ \E p \in FilePaths, c \in Contents : FsWrite(p, c)
  \/ \E p \in FilePaths : FsRemove(p)
  \/ \E ok \in BOOLEAN : SetTemplateFuncs(ok)
  \/ GoEngineClear
  \/ \E delims \in DelimConfigs : GoEngineSetDelims(delims)
  \/ \E info \in GoInfos : GoEngineAddTemplate(info)

Spec_go_engine == Init /\ [][Next_go_engine]_vars

(* ----------------------------- two loaders --------------------------- *)

\* the files of the roots ps, in their order
RECURSIVE WalkPaths(_, _)
WalkPaths(ps, i) == IF i > Len(ps) THEN <<>> ELSE WalkFiles(ps[i]) \o WalkPaths(ps, i + 1)

\* the walks of Refresh(): two AddTemplate calls per file, each followed by
\* checkTemplateError; a panic of AddTemplate ends them
RECURSIVE RefreshWalk(_, _, _, _)
RefreshWalk(eng, compileError, todo, k) ==
  IF todo = <<>>
    THEN [engine |-> eng, compileError |-> compileError, panic |-> FALSE]
  ELSE
    LET info == WalkInfo(Head(todo), k)
        r == AddTemplate(eng, info)
    IN  IF r.panic
          THEN [engine |-> r.engine, compileError |-> compileError, panic |-> TRUE]
          ELSE RefreshWalk(r.engine, checkTemplateError(compileError, r.err, info.Name),
                           IF k = 2 THEN Tail(todo) ELSE todo,
                           IF k = 2 THEN 1 ELSE 2)

\* TemplateLoader.Refresh as one call: the registry and the loader afterwards
Refresh(ldr, eng) ==
  LET ldr0 == [ldr EXCEPT !.compileError = NoError, !.templatePaths = EmptyMap]
      eng0 == IF TemplateDelims # <<>> THEN SetDelims(eng, TemplateDelims) ELSE eng
      w == RefreshWalk(eng0, NoError, WalkPaths(ldr.paths, 1), 1)
  IN  [engine |-> w.engine,
       panic |-> w.panic,
       loader |-> IF w.panic
                    THEN [ldr0 EXCEPT !.compileError = w.compileError]
                    ELSE [ldr0 EXCEPT !.compileError = w.compileError,
                                      !.templateSet =
                                         IF CompiledTemplates(w.engine).isNil
                                           THEN OwnObject(NilTemplate)
                                           ELSE SameObject]]

\* loaders[l].Refresh()
LoaderRefresh(l) ==
  /\ LET r == Refresh(loaders[l], engine)
     IN  /\ engine' = r.engine
         /\ loaders' = [loaders EXCEPT ![l] = r.loader]
         /\ ret' = IF r.panic THEN [kind |-> "panic", err |-> NoError]
                   ELSE [kind |-> "returned", err |-> r.loader.compileError]
  /\ lookup' = NoLookup
  /\ UNCHANGED <<fs, loader, TemplateFuncs, TemplateDelims, run, hist, ops, calc, goEngine>>

\* loaders[l].Template(name)
LoaderTemplate(l, name) ==
  /\ lookup' = [valid |-> TRUE, name |-> name, res |-> Template(loaders[l], engine, name),
                of |-> l]
  /\ lookup' # lookup
  /\ UNCHANGED <<fs, engine, loader, loaders, TemplateFuncs, TemplateDelims, run, ret, hist,
                 ops, calc, goEngine>>

Next_two_loaders ==
  \/ \E p \in FilePaths, c \in Contents : FsWrite(p, c)
  \/ \E p \in FilePaths : FsRemove(p)
  \/ \E reg \in Registrations : CallRegisterTemplater(reg[1], reg[2])
  \/ \E l \in 1..Len(LoaderPaths) : LoaderRefresh(l)
  \/ \E l \in 1..Len(LoaderPaths), name \in QueryNames : LoaderTemplate(l, name)

Spec_two_loaders == Init /\ [][Next_two_loaders]_vars

(* ----------------------------- properties ------------------------------ *)

\* the template object the loader looks names up in
View == Deref(loader.templateSet, engine)

\* the last Refresh() has returned and no other Refresh() is running
Returned == run.pc = "idle" /\ ret.kind = "returned"

\* err is the parse error GoTemplater returns for a broken source
IsParseError(err) == err # NoError /\ err.Description.text = "template: parse error"

\* err is the error AddTemplate returns when no compiler handles the extension
IsLoadError(err) == err # NoError /\ err.Title = "Template Load Error"

\* Template(name) returns a handle wrapping the entry of the lower-cased name
Resolves(name) ==
  LET res == Template(loader, engine, name)
  IN  /\ ~res.fault
      /\ res.found
      /\ res.tmpl = View.names[ToLower(name)]

\* C1: when the first failing template of a Refresh() is one with a parse
\* error, Refresh() returns a non-nil error naming that template and its line,
\* and every template of the set is still returned by Template()
C1_ParseErrorReturned ==
  (Returned /\ IsParseError(hist.firstErr) /\ loader.templateSet.alias) =>
     /\ ret.err # NoError
     /\ ret.err.Path = hist.firstErr.Path
     /\ ret.err.Line = hist.firstErr.Line
     /\ \A n \in DOMAIN View.names : ToLower(n) = n => Resolves(n)

\* C2: a file whose extension has no compiler makes AddTemplate return a
\* Template Load Error naming the extension, and Refresh() retains and
\* returns it when it is the first error of the walk
C2_LoadErrorReturned ==
  /\ (hist.call.valid /\ IsLoadError(hist.call.err)) =>
        /\ hist.call.err.Description.arg = Ext(hist.call.info.Path)
        /\ Ext(hist.call.info.Path) \notin DOMAIN engine.handlers
  /\ (Returned /\ IsLoadError(hist.firstErr)) =>
        /\ ret.err # NoError
        /\ ret.err.Title = "Template Load Error"
        /\ ret.err.Description = hist.firstErr.Description

\* C3: a fault of the default compiler is returned as the structured error
\* "Panic (Template Loader)", and no fault leaves AddTemplate or Refresh()
C3_FaultIsCaught ==
  /\ ret.kind # "panic"
  /\ (hist.call.valid /\ hist.call.fault) =>
        /\ hist.call.err # NoError
        /\ hist.call.err.Title = "Panic (Template Loader)"

\* name is the logical name of the file at path under one of the roots
OwnName(name, path) == \E i \in 1..Len(paths) : path = Join(paths[i], name)

\* both spellings of name give a handle for the artifact compiled from path
BothResolveTo(name, path) ==
  LET a == Template(loader, engine, name)
      b == Template(loader, engine, ToLower(name))
  IN  /\ ~a.fault /\ a.found
      /\ ~b.fault /\ b.found
      /\ a.tmpl = b.tmpl
      /\ a.tmpl.from = path
      /\ a.tmpl.tree = View.names[name].tree

C5_RepeatedNameIsNoop ==
  [][(/\ run.pc = "walk"
      /\ run.todo # <<>>
      /\ NextInfo.Name \in DOMAIN engine.seen_paths
      /\ run' # run)
     => (/\ engine' = engine
         /\ loader' = loader
         /\ ret' = ret
         /\ hist'.call.err = NoError
         /\ ~hist'.call.fault)]_vars

\* a repeated name was submitted with another path than the recorded one
C5_Witness ==
  /\ hist.call.valid
  /\ hist.call.seen
  /\ engine.seen_paths[hist.call.info.Name] # hist.call.info.Path

\* C6: every walk starts from an empty loader and an empty registry, and
\* after a Refresh() every template of the set is the compilation of the
\* present content of its file
C6_RefreshResets ==
  /\ (run.pc = "walk" /\ run.n = 0) =>
        /\ loader.templatePaths = EmptyMap
        /\ loader.compileError = NoError
        /\ engine.seen_paths = EmptyMap
        /\ engine.TemplateSet.isNil
  /\ (Returned /\ hist.prev.valid /\ loader.templateSet.alias) =>
        \A n \in DOMAIN View.names :
          /\ fs[View.names[n].from] # Absent
          /\ View.names[n].tree.src = fs[View.names[n].from]

\* C7: a Refresh() that completes after a completed Refresh() with no change
\* of the filesystem in between binds every name of both sets to the same source
C7_RefreshIdempotent ==
  [][(/\ run.pc = "walk"
      /\ run'.pc = "idle"
      /\ ret'.kind = "returned"
      /\ hist.prev.valid)
     => \A n \in DOMAIN hist.prev.set.names \cap
                 DOMAIN Deref(loader'.templateSet, engine').names :
          Deref(loader'.templateSet, engine').names[n].tree.src
            = hist.prev.set.names[n].tree.src]_vars

\* C8: from the first AddTemplate call of a Refresh() that returns an error
\* on, compileError is that error, up to and including the return
C8_FirstErrorWins ==
  ((run.pc = "walk" \/ Returned) /\ hist.firstErr # NoError) =>
     /\ loader.compileError # NoError
     /\ loader.compileError.Description = hist.firstErr.Description
     /\ Returned => ret.err = loader.compileError

\* the lower-cased name of the last lookup is in the loader's set
LookupHits == ~View.isNil /\ ToLower(lookup.name) \in DOMAIN View.names

\* C9: a lookup of a name that is not in the set, with no compileError
\* stored, returns the not-found error and no handle, also when the set is nil
C9_MissIsNotFound ==
  (lookup.valid /\ loader.compileError = NoError /\ ~LookupHits) =>
     /\ ~lookup.res.fault
     /\ ~lookup.res.found
     /\ lookup.res.err.Description.text = "Template not found"

\* C10: with a compileError stored every lookup returns it, with the handle
\* when the name resolves; with none stored a lookup that resolves returns nil
C10_CompileErrorReturned ==
  lookup.valid =>
     /\ loader.compileError # NoError =>
          /\ ~lookup.res.fault
          /\ lookup.res.err = loader.compileError
          /\ LookupHits =>
               (lookup.res.found /\ lookup.res.tmpl = View.names[ToLower(lookup.name)])
     /\ (loader.compileError = NoError /\ LookupHits) =>
          /\ ~lookup.res.fault
          /\ lookup.res.found
          /\ lookup.res.err = NoError

\* C11: Clear() leaves seen_paths empty and the merged set nil, and leaves the
\* extension-to-compiler map and the delimiter pair as they were
C11_ClearFrame ==
  [][CallClear =>
       (/\ engine'.seen_paths = EmptyMap
        /\ engine'.TemplateSet.isNil
        /\ engine'.handlers = engine.handlers
        /\ engine'.delims = engine.delims)]_vars

\* Clear() has emptied a registry that held a merged set, registered
\* compilers and a configured delimiter pair
C11_Witness ==
  /\ engine.seen_paths = EmptyMap
  /\ engine.TemplateSet.isNil
  /\ ~loader.templateSet.alias
  /\ ~loader.templateSet.val.isNil
  /\ ExtLower \in DOMAIN engine.handlers
  /\ engine.delims = <<"<%", "%>">>

\* c is kept by the deletion step: it is in [a-z0-9 _-]
SlugKeeps(c) == c \in LowerLetters \cup Digits \cup {" ", "_", "-"}

\* m is a character paired with whether a space precedes it; a space after a
\* space belongs to a run already replaced
StartsOrPlain(m) == ~(m[1] = " " /\ m[2])

\* the slug of text as the four steps describe it
SlugOf(text) ==
  LET kept == SelectSeq(ToLower(text), SlugKeeps)
      marks == [i \in 1..Len(kept) |-> <<kept[i], i > 1 /\ kept[i - 1] = " ">>]
      heads == SelectSeq(marks, StartsOrPlain)
      dashed == [i \in 1..Len(heads) |-> IF heads[i][1] = " " THEN "-" ELSE heads[i][1]]
      inner == {i \in 1..Len(dashed) : dashed[i] # "-"}
  IN  IF inner = {} THEN <<>>
      ELSE SubSeq(dashed, CHOOSE i \in inner : \A j \in inner : i <= j,
                          CHOOSE i \in inner : \A j \in inner : i >= j)

\* C12: Slug(text) is text lower-cased, without the characters outside
\* [a-z0-9 _-], with every run of whitespace replaced by one "-" and without
\* leading and trailing "-"; the two examples give "hello-world-foo_bar" and "test"
C12_SlugSteps ==
  calc.fn = "Slug" =>
    /\ calc.out = SlugOf(calc.arg)
    /\ calc.arg = SlugExample1 => calc.out = <<"h", "e", "l", "l", "o", "-", "w", "o", "r", "l", "d", "-", "f", "o", "o", "_", "b", "a", "r">>
    /\ calc.arg = SlugExample2 => calc.out = <<"t", "e", "s", "t">>

\* Slug has been applied to the second example
C12_Witness ==
  /\ calc.fn = "Slug"
  /\ calc.arg = SlugExample2
  /\ calc.out = <<"t", "e", "s", "t">>

\* C13: the merged set is nil exactly when no AddTemplate call has obtained a
\* non-nil template and a nil error from a compiler since the last Clear()
\* (or since initialization)
C13_NilIffNothingCompiled == engine.TemplateSet.isNil <=> ~hist.compiled

\* a compiler call that returned neither a template nor an error has left
\* the merged set nil
C13_Witness ==
  /\ hist.call.valid
  /\ hist.call.fault
  /\ ~hist.compiled
  /\ engine.TemplateSet.isNil
  /\ hist.call.info.Name \in DOMAIN engine.seen_paths

\* C14: the keys of seen_paths are exactly the logical names passed to
\* AddTemplate since the last Clear(), and for each of them the file has
\* been read exactly once, whatever the outcome of the read, the handler
\* lookup and the compile
C14_SeenOncePerName ==
  /\ DOMAIN engine.seen_paths = hist.passed
  /\ \A n \in hist.passed : hist.reads[n] = 1

\* C15: an AddTemplate call whose file cannot be read returns nil, calls no
\* compiler and leaves the merged set as it was, and the walk goes on with
\* compileError as it was; this for the registry and for the engine object
C15_ReadFailureIsSilent ==
  [][/\ (/\ RefreshAdd
         /\ ReadsFile(engine, NextInfo)
         /\ ~ReadFile(NextInfo.Path).ok)
        => (/\ hist'.call.err = NoError
            /\ ~hist'.call.invoked
            /\ engine'.TemplateSet = engine.TemplateSet
            /\ loader'.compileError = loader.compileError
            /\ run'.pc = "walk")
     /\ \A info \in GoInfos :
          (GoEngineAddTemplate(info) /\ ~ReadFile(info.Path).ok)
            => (/\ calc'.out.err = NoError
                /\ ~calc'.out.panic
                /\ goEngine'.templateSet = goEngine.templateSet)]_vars

\* the registry has been handed a file that is listed and cannot be read
C15_Witness ==
  /\ hist.call.valid
  /\ ~hist.call.seen
  /\ fs[hist.call.info.Path] = Unreadable
  /\ hist.call.err = NoError

\* the files a walk of the present filesystem discovers
Discovered == {WalkAll(1)[i] : i \in 1..Len(WalkAll(1))}

\* C16: after Refresh() has returned, and while the filesystem is as it was,
\* templatePaths has the logical name of every discovered file, mapped to the
\* path of a discovered file of that name, and Content() of every template
\* of the set reads the file the template was compiled from
C16_PathsRecorded ==
  (Returned /\ hist.prev.valid) =>
     /\ \A f \in Discovered :
          LET n == WalkInfo(f, 1).Name
          IN  /\ n \in DOMAIN loader.templatePaths
              /\ \E g \in Discovered :
                    WalkInfo(g, 1).Name = n /\ g.path = loader.templatePaths[n]
     /\ \A n \in DOMAIN View.names :
          Content(loader, n) = ReadFile(View.names[n].from)

\* the non-hidden files present under root, in byte order of their paths
FilesUnder(root) ==
  Sorted({p \in DOMAIN fs : /\ fs[p] # Absent
                            /\ HasPrefix(p, root \o <<"/">>)
                            /\ Head(Base(p)) # "."})

\* the two submissions of each file of files, found under root
RECURSIVE SubmissionsOf(_, _)
SubmissionsOf(files, root) ==
  IF files = <<>> THEN <<>>
  ELSE LET p == Head(files)
           n == SubSeq(p, Len(root) + 2, Len(p))
       IN  <<[Name |-> n, Path |-> p], [Name |-> ToLower(n), Path |-> p]>>
             \o SubmissionsOf(Tail(files), root)

\* what a complete Refresh() submits to AddTemplate, in order
Submissions ==
  SubmissionsOf(FilesUnder(Root1), Root1) \o SubmissionsOf(FilesUnder(Root2), Root2)

\* C17: the n-th AddTemplate call of a Refresh() is the n-th submission of
\* the non-hidden files of all roots (each under its name, then under its
\* lower-cased name); a call that returns an error is followed by the rest of
\* the walk; and Refresh() returns only after the last submission
C17_WalkSubmitsAll ==
  [][/\ (run'.pc = "walk" /\ run'.n > 0 /\ run' # run) =>
          /\ run'.n <= Len(Submissions)
          /\ hist'.call.info = Submissions[run'.n]
     /\ (RefreshAdd /\ hist'.call.err # NoError) =>
          /\ run'.pc = "walk"
          /\ run'.n = run.n + 1
     /\ (run.pc = "walk" /\ run'.pc = "idle" /\ ret'.kind = "returned") =>
          run.n = Len(Submissions)]_vars

\* after an error for a file of the first root a file of the second root
\* has been submitted and compiled
C17_Witness ==
  /\ run.pc = "walk"
  /\ hist.firstErr # NoError
  /\ HasPrefix(hist.firstErr.Path, Root1)
  /\ hist.call.valid
  /\ HasPrefix(hist.call.info.Path, Root2)
  /\ ~hist.call.seen
  /\ hist.call.err = NoError
  /\ hist.call.info.Name \in DOMAIN engine.TemplateSet.names

\* root holds a readable file named NameLower with a source that compiles and
\* a file named NameUpper, and a compiler is registered for the former
CasePairUnder(root) ==
  /\ fs[Join(root, NameUpper)] # Absent
  /\ fs[Join(root, NameLower)] \in {"v1", "v2"}
  /\ ExtLower \in DOMAIN engine.handlers
  /\ TemplateFuncs

\* C18: when a root holds two files whose names differ only by case, one of
\* them all lower-case, then after Refresh() the lower-case name is bound to
\* the artifact compiled from the file of that name, not to the alias of the other
C18_CanonicalCaseWins ==
  (Returned /\ hist.prev.valid /\ loader.templateSet.alias) =>
     \A i \in 1..Len(paths) :
       (/\ CasePairUnder(paths[i])
        /\ \A j \in 1..(i - 1) : \A n \in {NameUpper, NameLower} :
              fs[Join(paths[j], n)] = Absent)
       => /\ ~View.isNil
          /\ NameLower \in DOMAIN View.names
          /\ View.names[NameLower].from = Join(paths[i], NameLower)

\* C19: while a Refresh() is merging templates the set reachable through the
\* loader is the one published by the last completed Refresh(), and a lookup
\* made meanwhile finds in it what that set held
C19_ReadersSeePublishedSet ==
  run.pc = "walk" =>
     /\ View = hist.published
     /\ lookup.valid =>
          /\ lookup.res.fault <=> hist.published.isNil
          /\ lookup.res.found <=> ToLower(lookup.name) \in DOMAIN hist.published.names
          /\ lookup.res.found =>
               lookup.res.tmpl = hist.published.names[ToLower(lookup.name)]

\* positions a..b of message hold a colon, one or more digits and a colon
IsFragment(message, a, b) ==
  /\ a + 1 < b
  /\ message[a] = ":"
  /\ message[b] = ":"
  /\ \A k \in (a + 1)..(b - 1) : message[k] \in Digits

FragmentsOf(message) ==
  {ab \in (1..Len(message)) \X (1..Len(message)) : IsFragment(message, ab[1], ab[2])}

\* the fragment that begins first
FirstFragment(message) ==
  CHOOSE ab \in FragmentsOf(message) : \A cd \in FragmentsOf(message) : ab[1] <= cd[1]

\* text without its leading and trailing spaces
Stripped(text) ==
  LET inner == {i \in 1..Len(text) : text[i] # " "}
  IN  IF inner = {} THEN <<>>
      ELSE SubSeq(text, CHOOSE i \in inner : \A j \in inner : i <= j,
                        CHOOSE i \in inner : \A j \in inner : i >= j)

\* text after its last colon, or all of it when it has none
AfterLastColon(text) ==
  LET colons == {i \in 1..Len(text) : text[i] = ":"}
  IN  IF colons = {} THEN text
      ELSE SubSeq(text, (CHOOSE i \in colons : \A j \in colons : i >= j) + 1, Len(text))

\* C20: for a message with a fragment :<digits>: parseTemplateError returns
\* the number of the first one as line, the text before it after its last
\* colon, trimmed, as templateName, and the text after it (with or without
\* the space that follows the fragment) as description; for a message
\* without one it returns line 0 and the message; and it never faults
C20_ParsesPosition ==
  calc.fn = "parseTemplateError" =>
    LET message == calc.arg
        out == calc.out
    IN  /\ ~out.fault
        /\ IF FragmentsOf(message) = {}
             THEN out.line = 0 /\ out.description = message
             ELSE LET ab == FirstFragment(message)
                      rest == SubSeq(message, ab[2] + 1, Len(message))
                  IN  /\ out.line = Atoi(SubSeq(message, ab[1] + 1, ab[2] - 1))
                      /\ out.templateName
                           = Stripped(AfterLastColon(SubSeq(message, 1, ab[1] - 1)))
                      /\ \/ out.description = rest
                         \/ rest # <<>> /\ Head(rest) = " " /\ out.description = Tail(rest)

\* the same without the two cases the code gets wrong: a fragment that ends
\* the message, and more than one colon before the fragment
C20_Holds ==
  (/\ calc.fn = "parseTemplateError"
   /\ FragmentsOf(calc.arg) # {}
   /\ FirstFragment(calc.arg)[2] < Len(calc.arg)
   /\ calc.arg[FirstFragment(calc.arg)[2] + 1] = " "
   /\ Cardinality({i \in 1..(FirstFragment(calc.arg)[1] - 1) : calc.arg[i] = ":"}) <= 1)
  => C20_ParsesPosition

\* parseTemplateError has been handed a message that ends with its fragment
C20_FaultReached ==
  /\ calc.fn = "parseTemplateError"
  /\ calc.out.fault
  /\ calc.arg = <<":", "1", ":">>

\* the names the merged set holds that AddTemplate never recorded
Unrecorded == DOMAIN engine.TemplateSet.names \ DOMAIN engine.seen_paths

\* the last AddTemplate call of the walk ended in the error of AddParseTree
MergeCollided ==
  /\ hist.call.valid
  /\ hist.call.err # NoError
  /\ hist.call.err.Description.text = "template: redefinition of template"

(* C21: within one build generation the merge step of AddTemplate is never
   invoked with a name the merged set already holds, so that no AddTemplate
   call of a Refresh() ends in the redefinition error of AddParseTree. *)
C21_MergeNeverCollides == ~MergeCollided

\* the premise C21 gives: every name of the merged set is a key of seen_paths
C21_NamesRecorded == Unrecorded = {}

\* the files under root that the walk submits under the lower-cased name ln
LogicalFiles(root, ln) ==
  {p \in DOMAIN fs : /\ fs[p] # Absent
                     /\ HasPrefix(p, root \o <<"/">>)
                     /\ WatchFile(Base(p))
                     /\ ToLower(SliceFrom(p, Len(root) + 1)) = ln}

\* the file at p is readable, parses, and a compiler handles its extension
Compilable(p) ==
  /\ fs[p] \in {"v1", "v2", Defining}
  /\ Ext(p) \in DOMAIN engine.handlers
  /\ TemplateFuncs

\* every root holds a file of the logical name ln and those of the first compile
InAllRoots(ln) ==
  /\ \A i \in 1..Len(paths) : LogicalFiles(paths[i], ln) # {}
  /\ \A p \in LogicalFiles(paths[1], ln) : Compilable(p)

(* C22: when both roots hold a file of the same logical name, a Refresh()
   that returns leaves that name bound, in the merged set, to the artifact
   compiled from a file under the first root of paths, and no AddTemplate call
   of the walk compiles a file of a later root under that name. *)
C22_FirstRootWins ==
  [][\A ln \in {NameLower} :
       InAllRoots(ln) =>
         /\ (run.pc = "walk" /\ run'.pc = "idle" /\ ret'.kind = "returned") =>
              LET set == CompiledTemplates(engine')
              IN  /\ ~set.isNil
                  /\ ln \in DOMAIN set.names
                  /\ HasPrefix(set.names[ln].from, paths[1] \o <<"/">>)
         /\ (run.pc = "walk" /\ run.todo # <<>> /\ hist'.call.valid
             /\ hist'.call # hist.call) =>
              ~(/\ NextInfo.Name = ln
                /\ ~HasPrefix(NextInfo.Path, paths[1] \o <<"/">>)
                /\ InvokesCompiler(engine, NextInfo))]_vars

\* the merged set loaders[l].Template() looks names up in
ViewOf(l) == Deref(loaders[l].templateSet, engine)

\* every template of the set of loaders[l] was read from a file under its paths
OwnTemplates(l) ==
  \A n \in DOMAIN ViewOf(l).names :
    \E i \in 1..Len(loaders[l].paths) :
      HasPrefix(ViewOf(l).names[n].from, loaders[l].paths[i] \o <<"/">>)

(* C23: with two loaders of disjoint roots, the set a loader's Template()
   looks names up in holds only templates discovered under that loader's own
   paths, and a Refresh() of one loader leaves what Template() of the other
   returns as it was. *)
C23_LoadersIsolated ==
  [][\A l \in DOMAIN loaders :
       LoaderRefresh(l) =>
         /\ \A m \in DOMAIN loaders : OwnTemplates(m)'
         /\ \A m \in DOMAIN loaders \ {l} : \A name \in QueryNames :
              Template(loaders'[m], engine', name) = Template(loaders[m], engine, name)]_vars

\* what a Refresh() of the loader would return if it were called in this state
NextRefresh == Refresh([paths |-> paths] @@ loader, engine)

(* C24: when a Refresh() returns, a second Refresh() called next, with
   nothing done in between, returns the same result: a compile error the
   first returned is returned, equal, by the second. *)
C24_RefreshRepeats ==
  [][(run.pc = "walk" /\ run'.pc = "idle" /\ ret'.kind = "returned")
     => (/\ ~NextRefresh'.panic
         /\ NextRefresh'.loader.compileError = ret'.err)]_vars

====
